---- MODULE Spec2Model ----
(***************************************************************************)
(* Model of corepy's PowerPC typed-value layer (ppc_types.py) and of the   *)
(* framebuffer demo's synthesis routine (fbdemo.py).                       *)
(*                                                                         *)
(* Python type objects are modelled uniformly as records                   *)
(*   [id |-> n, host |-> s]                                                *)
(* where n > 0 is the identity of a class created by make_user_type and    *)
(* n = 0 with host in {"int","long","float","Immediate"} is a host type;   *)
(* [id |-> 0, host |-> "None"] is Python's None.  An operand is modelled   *)
(* by its type, which is all the modelled code looks at.                   *)
(***************************************************************************)
EXTENDS Integers, Sequences, FiniteSets, TLC

VARIABLES
  classes,      \* classes created by type(...) in make_user_type, by identity
  attrs,        \* own var_cls / expr_cls attributes of each type class
  g,            \* the module namespace the factory binds names in
  t,            \* how many entries of _user_types the import loop has done
  active_code,  \* the active-target slot of each architecture module
  code,         \* instructions appended to the PowerPC instruction stream
  storage,      \* constant-pool entries added to the stream
  held,         \* registers currently acquired from the stream's allocator
  buffers,      \* FBDraw.buffers
  stride,       \* FBDraw.stride
  spu_code,     \* per SPU stream, the number of drawing bodies synthesized
  argv,         \* operands evaluated so far for the call being prepared
  last          \* the most recent call and its outcome

vars == <<classes, attrs, g, t, active_code, code, storage, held,
          buffers, stride, spu_code, argv, last>>

(***************************************************************************)
(* Bounds                                                                  *)
(***************************************************************************)
MaxRecalls == 2      \* factory calls made after the import loop
MaxOperands == 3     \* longest operand tuple handed to a dispatcher
MaxCode == 3         \* longest instruction stream before a reset
MaxStorage == 1      \* most constant-pool entries before a reset
NumRegs == 2         \* registers the allocator can hand out
MaxSynth == 1        \* most drawing bodies kept per SPU stream

(***************************************************************************)
(* Type classes and their hierarchy                                        *)
(***************************************************************************)
TypeClasses ==
  {"BitType", "UnsignedWordType", "SignedWordType",
   "SingleFloatType", "DoubleFloatType"}

Base ==
  [c \in TypeClasses \cup {"PPCType"} |->
     CASE c = "BitType" -> "PPCType"
       [] c = "UnsignedWordType" -> "BitType"
       [] c = "SignedWordType" -> "BitType"
       [] c = "SingleFloatType" -> "PPCType"
       [] c = "DoubleFloatType" -> "PPCType"
       [] OTHER -> "object"]

RECURSIVE issubclass(_, _)
issubclass(c, p) ==
  IF c = p THEN TRUE
  ELSE IF c \in DOMAIN Base THEN issubclass(Base[c], p)
  ELSE FALSE

_user_types ==
  << <<"Bits", "BitType">>,
     <<"UnsignedWord", "UnsignedWordType">>,
     <<"SignedWord", "SignedWordType">>,
     <<"SingleFloat", "SingleFloatType">>,
     <<"DoubleFloat", "DoubleFloatType">> >>

Names == {_user_types[i][1] : i \in 1..Len(_user_types)}

(***************************************************************************)
(* Python type objects                                                     *)
(***************************************************************************)
None == [id |-> 0, host |-> "None"]
Cls(n) == [id |-> n, host |-> ""]
Host(h) == [id |-> 0, host |-> h]

HostTypes == {Host("int"), Host("long"), Host("float"), Host("Immediate")}
_int_literals == {Host("Immediate"), Host("int"), Host("long")}

UserClasses == {Cls(n) : n \in 1..Len(classes)}
Operands == UserClasses \cup HostTypes

\* hasattr(a, 'type_cls'): only instances of factory-made classes have it
HasTypeCls(a) == a.id # 0
\* a.type_cls, found in the own dictionary of a's class
TypeClsOf(a) == classes[a.id].type_cls

\* attribute lookup along the base classes of a type class; 0 when absent
RECURSIVE LookupAttr(_, _)
LookupAttr(c, name) ==
  IF c \notin TypeClasses THEN 0
  ELSE IF attrs[c][name] # 0 THEN attrs[c][name]
  ELSE LookupAttr(Base[c], name)

\* self.var_cls / self.expr_cls of an instance of a factory-made class
VarClsOf(a) == Cls(LookupAttr(TypeClsOf(a), "var_cls"))
ExprClsOf(a) == Cls(LookupAttr(TypeClsOf(a), "expr_cls"))

isinstance(a, c) == HasTypeCls(a) /\ issubclass(TypeClsOf(a), c)

\* the kind a class object stands for: its type_cls back-reference
KindOf(c) == IF c.id = 0 THEN "None" ELSE classes[c.id].type_cls

(***************************************************************************)
(* Outcomes of calls                                                       *)
(***************************************************************************)
NoMsg == [op |-> "", types |-> <<>>, text |-> ""]

Return(v) ==
  [status |-> "return", value |-> v, inst |-> "", form |-> "",
   operands |-> <<>>, exc |-> "", msg |-> NoMsg]

\* a computed value: instruction template, operands, forced result class
Expr(inst, form, operands, type_cls) ==
  [status |-> "return", value |-> type_cls, inst |-> inst, form |-> form,
   operands |-> operands, exc |-> "", msg |-> NoMsg]

Raise(exc, msg) ==
  [status |-> "raise", value |-> None, inst |-> "", form |-> "",
   operands |-> <<>>, exc |-> exc, msg |-> msg]

\* Exception('<op> not implemented for %s and %s' % (type(self), type(other)))
NotImplementedFor(op, self, other) ==
  Raise("Exception",
        [op |-> op, types |-> <<self, other>>, text |-> "not implemented for"])

(***************************************************************************)
(* Type-precedence resolver                                                *)
(***************************************************************************)
\* variant: a related pair resolves to the first operand's class
_most_specific_first(a, b, default) ==
  IF HasTypeCls(a) /\ HasTypeCls(a) THEN
    IF ~HasTypeCls(b) THEN Raise("AttributeError", NoMsg)
    ELSE IF issubclass(TypeClsOf(b), TypeClsOf(a)) THEN Return(a)
    ELSE IF issubclass(TypeClsOf(a), TypeClsOf(b)) THEN Return(a)
    ELSE Return(default)
  ELSE IF default = None THEN
    IF HasTypeCls(a) THEN Return(a)
    ELSE IF HasTypeCls(b) THEN Return(b)
    ELSE Return(default)
  ELSE Return(default)

_most_specific(a, b, default) ==
  IF HasTypeCls(a) /\ HasTypeCls(a) THEN
    IF ~HasTypeCls(b) THEN Raise("AttributeError", NoMsg)
    ELSE IF issubclass(TypeClsOf(b), TypeClsOf(a)) THEN Return(b)
    ELSE IF issubclass(TypeClsOf(a), TypeClsOf(b)) THEN Return(a)
    ELSE Return(default)
  ELSE IF default = None THEN
    IF HasTypeCls(a) THEN Return(a)
    ELSE IF HasTypeCls(b) THEN Return(b)
    ELSE Return(default)
  ELSE Return(default)

(***************************************************************************)
(* Value-type algebras                                                     *)
(***************************************************************************)
BitType__upcast(self, other, inst) ==
  LET type_cls == _most_specific(self, other, None)
  IN IF type_cls.status = "raise" THEN type_cls
     ELSE Expr(inst, "ex", <<self, other>>, type_cls.value)

BitType__and__(self, other) ==
  IF isinstance(other, "BitType") THEN BitType__upcast(self, other, "andx")
  ELSE IF other \in _int_literals
    THEN Expr("andi", "ex", <<self, other>>, VarClsOf(self))
  ELSE NotImplementedFor("__and__", self, other)

BitType__lshift__(self, other) ==
  IF isinstance(other, "BitType")
    THEN Expr("slwx", "ex", <<self, other>>, VarClsOf(self))
  ELSE NotImplementedFor("__lshift__", self, other)

BitType__rshift__(self, other) ==
  IF isinstance(other, "BitType")
    THEN Expr("srwx", "ex", <<self, other>>, VarClsOf(self))
  ELSE NotImplementedFor("__rshift__", self, other)

BitType__or__(self, other) ==
  IF isinstance(other, "BitType") THEN BitType__upcast(self, other, "orx")
  ELSE IF other \in _int_literals
    THEN Expr("ori", "ex", <<self, other>>, VarClsOf(self))
  ELSE NotImplementedFor("__or__", self, other)

BitType__xor__(self, other) ==
  IF isinstance(other, "BitType") THEN BitType__upcast(self, other, "xorx")
  ELSE IF other \in _int_literals
    THEN Expr("xori", "ex", <<self, other>>, VarClsOf(self))
  ELSE NotImplementedFor("__xor__", self, other)

UnsignedWordType__add__(self, other) ==
  IF isinstance(other, "UnsignedWordType")
    THEN Expr("addx", "ex", <<self, other>>, VarClsOf(self))
  ELSE IF other \in {Host("Immediate"), Host("int")}
    THEN Expr("addi", "expr_cls", <<self, other>>, ExprClsOf(self))
  ELSE NotImplementedFor("__add__", self, other)

\* "raise NotImplemented" raises a TypeError: NotImplemented is no exception
UnsignedWordType__div__(self, other) ==
  IF isinstance(other, "SignedWordType")
    THEN Expr("divwux", "expr_cls", <<self, other>>, ExprClsOf(self))
  ELSE Raise("TypeError",
             [op |-> "", types |-> <<>>,
              text |-> "exceptions must be classes or instances"])

SignedWordType__add__(self, other) ==
  IF isinstance(other, "SignedWordType")
    THEN Expr("addx", "ex", <<self, other>>, VarClsOf(self))
  ELSE IF other \in {Host("Immediate"), Host("int")}
    THEN Expr("addi", "expr_cls", <<self, other>>, ExprClsOf(self))
  ELSE NotImplementedFor("__add__", self, other)

SignedWordType__div__(self, other) ==
  IF isinstance(other, "SignedWordType")
    THEN Expr("divwx", "expr_cls", <<self, other>>, ExprClsOf(self))
  ELSE NotImplementedFor("__div__", self, other)

SignedWordType__mul__(self, other) ==
  IF isinstance(other, "SignedWordType")
    THEN Expr("mullwx", "expr_cls", <<self, other>>, ExprClsOf(self))
  ELSE IF other \in {Host("Immediate"), Host("int")}
    THEN Expr("mulli", "expr_cls", <<self, other>>, ExprClsOf(self))
  ELSE NotImplementedFor("__mul__", self, other)

\* the instruction is built directly, not through its .ex factory
SignedWordType__neg__(self) ==
  Expr("negx", "direct", <<self>>, VarClsOf(self))

\* operands swapped for subtract-from; the message says __add__
SignedWordType__sub__(self, other) ==
  IF isinstance(other, "SignedWordType")
    THEN Expr("subfx", "expr_cls", <<other, self>>, ExprClsOf(self))
  ELSE NotImplementedFor("__add__", self, other)

SingleFloatType__abs__(self) ==
  Expr("fabsx", "ex", <<self>>, VarClsOf(self))

SingleFloatType__add__(self, other) ==
  IF isinstance(other, "SingleFloatType")
    THEN Expr("faddsx", "ex", <<self, other>>, VarClsOf(self))
  ELSE NotImplementedFor("__add__", self, other)

SingleFloatType__div__(self, other) ==
  IF isinstance(other, "SingleFloatType")
    THEN Expr("fdivsx", "ex", <<self, other>>, VarClsOf(self))
  ELSE NotImplementedFor("__div__", self, other)

SingleFloatType__mul__(self, other) ==
  IF isinstance(other, "SingleFloatType")
    THEN Expr("fmulsx", "ex", <<self, other>>, VarClsOf(self))
  ELSE NotImplementedFor("__mul__", self, other)

SingleFloatType__neg__(self) ==
  Expr("fnegx", "ex", <<self>>, VarClsOf(self))

SingleFloatType__sub__(self, other) ==
  IF isinstance(other, "SingleFloatType")
    THEN Expr("fsubsx", "ex", <<self, other>>, VarClsOf(self))
  ELSE NotImplementedFor("__sub__", self, other)

DoubleFloatType__abs__(self) ==
  Expr("fabsx", "ex", <<self>>, VarClsOf(self))

DoubleFloatType__add__(self, other) ==
  IF isinstance(other, "DoubleFloatType")
    THEN Expr("faddx", "ex", <<self, other>>, VarClsOf(self))
  ELSE NotImplementedFor("__add__", self, other)

DoubleFloatType__div__(self, other) ==
  IF isinstance(other, "DoubleFloatType")
    THEN Expr("fdivx", "ex", <<self, other>>, VarClsOf(self))
  ELSE NotImplementedFor("__div__", self, other)

DoubleFloatType__mul__(self, other) ==
  IF isinstance(other, "DoubleFloatType")
    THEN Expr("fmulx", "ex", <<self, other>>, VarClsOf(self))
  ELSE NotImplementedFor("__mul__", self, other)

DoubleFloatType__neg__(self) ==
  Expr("fnegx", "ex", <<self>>, VarClsOf(self))

DoubleFloatType__sub__(self, other) ==
  IF isinstance(other, "DoubleFloatType")
    THEN Expr("fsubx", "ex", <<self, other>>, VarClsOf(self))
  ELSE NotImplementedFor("__sub__", self, other)

BinaryOps ==
  {"__and__", "__or__", "__xor__", "__lshift__", "__rshift__",
   "__add__", "__div__", "__mul__", "__sub__"}
UnaryOps == {"__neg__", "__abs__"}

\* the operator methods each type class defines itself
Methods ==
  [c \in TypeClasses |->
     CASE c = "BitType" ->
            {"__and__", "__lshift__", "__rshift__", "__or__", "__xor__"}
       [] c = "UnsignedWordType" -> {"__add__", "__div__"}
       [] c = "SignedWordType" ->
            {"__add__", "__div__", "__mul__", "__neg__", "__sub__"}
       [] c = "SingleFloatType" ->
            {"__abs__", "__add__", "__div__", "__mul__", "__neg__", "__sub__"}
       [] c = "DoubleFloatType" ->
            {"__abs__", "__add__", "__div__", "__mul__", "__neg__", "__sub__"}]

\* the type class whose method an operator on an instance resolves to
RECURSIVE FindMethod(_, _)
FindMethod(c, op) ==
  IF c \notin TypeClasses THEN "object"
  ELSE IF op \in Methods[c] THEN c
  ELSE FindMethod(Base[c], op)

ApplyBinary(self, op, other) ==
  LET c == FindMethod(TypeClsOf(self), op)
  IN CASE c = "BitType" /\ op = "__and__" -> BitType__and__(self, other)
       [] c = "BitType" /\ op = "__or__" -> BitType__or__(self, other)
       [] c = "BitType" /\ op = "__xor__" -> BitType__xor__(self, other)
       [] c = "BitType" /\ op = "__lshift__" -> BitType__lshift__(self, other)
       [] c = "BitType" /\ op = "__rshift__" -> BitType__rshift__(self, other)
       [] c = "UnsignedWordType" /\ op = "__add__" ->
            UnsignedWordType__add__(self, other)
       [] c = "UnsignedWordType" /\ op = "__div__" ->
            UnsignedWordType__div__(self, other)
       [] c = "SignedWordType" /\ op = "__add__" ->
            SignedWordType__add__(self, other)
       [] c = "SignedWordType" /\ op = "__div__" ->
            SignedWordType__div__(self, other)
       [] c = "SignedWordType" /\ op = "__mul__" ->
            SignedWordType__mul__(self, other)
       [] c = "SignedWordType" /\ op = "__sub__" ->
            SignedWordType__sub__(self, other)
       [] c = "SingleFloatType" /\ op = "__add__" ->
            SingleFloatType__add__(self, other)
       [] c = "SingleFloatType" /\ op = "__div__" ->
            SingleFloatType__div__(self, other)
       [] c = "SingleFloatType" /\ op = "__mul__" ->
            SingleFloatType__mul__(self, other)
       [] c = "SingleFloatType" /\ op = "__sub__" ->
            SingleFloatType__sub__(self, other)
       [] c = "DoubleFloatType" /\ op = "__add__" ->
            DoubleFloatType__add__(self, other)
       [] c = "DoubleFloatType" /\ op = "__div__" ->
            DoubleFloatType__div__(self, other)
       [] c = "DoubleFloatType" /\ op = "__mul__" ->
            DoubleFloatType__mul__(self, other)
       [] c = "DoubleFloatType" /\ op = "__sub__" ->
            DoubleFloatType__sub__(self, other)

ApplyUnary(self, op) ==
  LET c == FindMethod(TypeClsOf(self), op)
  IN CASE c = "SignedWordType" /\ op = "__neg__" -> SignedWordType__neg__(self)
       [] c = "SingleFloatType" /\ op = "__neg__" -> SingleFloatType__neg__(self)
       [] c = "SingleFloatType" /\ op = "__abs__" -> SingleFloatType__abs__(self)
       [] c = "DoubleFloatType" /\ op = "__neg__" -> DoubleFloatType__neg__(self)
       [] c = "DoubleFloatType" /\ op = "__abs__" -> DoubleFloatType__abs__(self)

(***************************************************************************)
(* Floating-point intrinsic dispatcher                                     *)
(***************************************************************************)
_float_functions ==
  [name \in {"fmadd", "fmsub", "fnmadd", "fnmsub", "fsqrt"} |->
     CASE name = "fmadd" -> [single_func |-> "fmaddsx", double_func |-> "fmaddx"]
       [] name = "fmsub" -> [single_func |-> "fmsubsx", double_func |-> "fmsubx"]
       [] name = "fnmadd" ->
            [single_func |-> "fnmaddsx", double_func |-> "fnmaddx"]
       [] name = "fnmsub" ->
            [single_func |-> "fnmsubsx", double_func |-> "fnmsubx"]
       [] name = "fsqrt" -> [single_func |-> "fsqrtsx", double_func |-> "fsqrtx"]]

SameTypesMsg ==
  [op |-> "", types |-> <<>>,
   text |-> "Types for all operands must be the same"]

\* variant: only the second operand is compared with the first
CheckOperands_second_only(operands, i) ==
  IF Len(operands) < 2 THEN Return(None)
  ELSE IF ~HasTypeCls(operands[2]) \/ ~HasTypeCls(operands[1])
    THEN Raise("AttributeError", NoMsg)
  ELSE IF VarClsOf(operands[2]) # VarClsOf(operands[1])
    THEN Raise("Exception", SameTypesMsg)
  ELSE Return(None)

\* the loop over operands[1:]; op.var_cls is read before a.var_cls
RECURSIVE CheckOperands(_, _)
CheckOperands(operands, i) ==
  IF i > Len(operands) THEN Return(None)
  ELSE IF ~HasTypeCls(operands[i]) \/ ~HasTypeCls(operands[1])
    THEN Raise("AttributeError", NoMsg)
  ELSE IF VarClsOf(operands[i]) # VarClsOf(operands[1])
    THEN Raise("Exception", SameTypesMsg)
  ELSE CheckOperands(operands, i + 1)

_float_function__call__(name, operands) ==
  IF Len(operands) = 0 THEN Raise("IndexError", NoMsg)
  ELSE
    LET a == operands[1]
        checked == CheckOperands(operands, 2)
    IN IF checked.status = "raise" THEN checked
       ELSE IF isinstance(a, "SingleFloatType")
         THEN Expr(_float_functions[name].single_func, "ex", operands,
                   Cls(g["SingleFloat"]))
       ELSE IF isinstance(a, "DoubleFloatType")
         THEN Expr(_float_functions[name].double_func, "ex", operands,
                   Cls(g["DoubleFloat"]))
       ELSE Raise("Exception",
                  [op |-> name, types |-> <<a>>,
                   text |-> "is not implemeneted for"])

(***************************************************************************)
(* Dual-class factory                                                      *)
(***************************************************************************)
NoAttrs == [var_cls |-> 0, expr_cls |-> 0]

RECURSIVE RootOf(_)
RootOf(c) == IF Base[c] \in TypeClasses THEN RootOf(Base[c]) ELSE c

\* variant: the references are stored on the root of the kind's hierarchy
make_user_type_on_root(name, type_cls) ==
  LET var_cls == Len(classes) + 1
      expr_cls == Len(classes) + 2
  IN /\ classes' = classes \o
          << [name |-> name, base |-> "Variable", type_cls |-> type_cls],
             [name |-> name, base |-> "Expression", type_cls |-> type_cls] >>
     /\ attrs' = [attrs EXCEPT ![RootOf(type_cls)] =
                    [var_cls |-> var_cls, expr_cls |-> expr_cls]]
     /\ g' = [g EXCEPT ![name] = var_cls]

\* var_cls = type(name, (spe.Variable, type_cls), {'type_cls': type_cls})
\* expr_cls = type(name + 'Ex', (spe.Expression, type_cls), {...})
make_user_type(name, type_cls) ==
  LET var_cls == Len(classes) + 1
      expr_cls == Len(classes) + 2
  IN /\ classes' = classes \o
          << [name |-> name, base |-> "Variable", type_cls |-> type_cls],
             [name |-> name, base |-> "Expression", type_cls |-> type_cls] >>
     /\ attrs' = [attrs EXCEPT ![type_cls] =
                    [var_cls |-> var_cls, expr_cls |-> expr_cls]]
     /\ g' = [g EXCEPT ![name] = var_cls]

Loaded == t = Len(_user_types)

(***************************************************************************)
(* Literal materialization                                                 *)
(***************************************************************************)
gp_return == 3
fp_return == 1
Registers == 1..NumRegs

Literals ==
  {0, 31, 32767, 32768, 65535, 65536, 98304, 252645375, -1, -32768, -32769}
FloatLiterals == {1, 2, 3}          \* 1.0, 2.0, 3.0
Addresses == {4096, 268468224}      \* storage.buffer_info()[0]

\* the 16-bit immediate field an instruction keeps of its operand
SIMM(v) == v % 65536

Instr(op, rD, rA, imm) == [op |-> op, rD |-> rD, rA |-> rA, imm |-> imm]

BitType__set_literal_value(reg, value) ==
  <<Instr("addi", reg, 0, SIMM(value))>> \o
  (IF (value % 65536) # value
     THEN <<Instr("addis", reg, reg, SIMM((value + 32768) \div 65536))>>
     ELSE <<>>)

\* sign extension of a 16-bit immediate
EXTS(imm) == IF imm >= 32768 THEN imm - 65536 ELSE imm

\* rA + (EXTS(imm) << 16) in 32-bit two's complement, computed by halves
AddShifted(ra, imm) ==
  LET hi == ra \div 65536
      lo == ra % 65536
      nhi == ((hi + EXTS(imm) + 32768) % 65536) - 32768
  IN nhi * 65536 + lo

\* the signed 32-bit content of register reg after executing instrs
RECURSIVE Execute(_, _, _)
Execute(instrs, reg, val) ==
  IF instrs = <<>> THEN val
  ELSE LET i == Head(instrs)
       IN IF i.rD # reg THEN Execute(Tail(instrs), reg, val)
          ELSE IF i.op = "addi" THEN Execute(Tail(instrs), reg, EXTS(i.imm))
          ELSE IF i.op = "addis"
            THEN Execute(Tail(instrs), reg, AddShifted(val, i.imm))
          ELSE Execute(Tail(instrs), reg, val)

LastCall(call, name, args, res) ==
  [call |-> call, name |-> name, args |-> args, res |-> res,
   lit |-> 0, n |-> 0]

LiteralCall(name, value, n, res) ==
  [call |-> "_set_literal_value", name |-> name, args |-> <<>>, res |-> res,
   lit |-> value, n |-> n]

FloatFormat == [SingleFloatType |-> "f", DoubleFloatType |-> "d"]
FloatLoad == [SingleFloatType |-> "lfs", DoubleFloatType |-> "lfd"]

(***************************************************************************)
(* Actions                                                                 *)
(***************************************************************************)
UnchangedTypes == UNCHANGED <<classes, attrs, g, t>>
UnchangedStream == UNCHANGED <<code, storage, held>>
UnchangedDraw == UNCHANGED <<active_code, buffers, stride, spu_code>>
UnchangedCall == UNCHANGED argv
NoCall == LastCall("", "", <<>>, Return(None))

\* one iteration of "for t in _user_types: make_user_type(*t)"
Import ==
  /\ t < Len(_user_types)
  /\ make_user_type(_user_types[t + 1][1], _user_types[t + 1][2])
  /\ t' = t + 1
  /\ last' = LastCall("make_user_type", _user_types[t + 1][1], <<>>, Return(None))
  /\ UnchangedStream /\ UnchangedDraw /\ UnchangedCall

\* a later call of the factory by a client
MakeUserType(name, type_cls) ==
  /\ Loaded
  /\ Len(classes) < 2 * (Len(_user_types) + MaxRecalls)
  /\ make_user_type(name, type_cls)
  /\ last' = LastCall("make_user_type", name, <<>>, Return(None))
  /\ UNCHANGED t
  /\ UnchangedStream /\ UnchangedDraw /\ UnchangedCall

\* the client evaluates one more operand of the call it is preparing; the
\* value of the statement before is no longer held
Operand(x) ==
  /\ Loaded
  /\ Len(argv) < MaxOperands
  /\ argv' = Append(argv, x)
  /\ last' = NoCall
  /\ UnchangedTypes /\ UnchangedStream /\ UnchangedDraw

BinaryOperator(op) ==
  /\ Loaded
  /\ Len(argv) = 2
  /\ HasTypeCls(argv[1])
  /\ FindMethod(TypeClsOf(argv[1]), op) \in TypeClasses
  /\ last' = LastCall("operator", op, argv,
                      ApplyBinary(argv[1], op, argv[2]))
  /\ argv' = <<>>
  /\ UnchangedTypes /\ UnchangedStream /\ UnchangedDraw

UnaryOperator(op) ==
  /\ Loaded
  /\ Len(argv) = 1
  /\ HasTypeCls(argv[1])
  /\ FindMethod(TypeClsOf(argv[1]), op) \in TypeClasses
  /\ last' = LastCall("operator", op, argv, ApplyUnary(argv[1], op))
  /\ argv' = <<>>
  /\ UnchangedTypes /\ UnchangedStream /\ UnchangedDraw

Resolve(default) ==
  /\ Loaded
  /\ Len(argv) = 2
  /\ last' = LastCall("_most_specific", "", Append(argv, default),
                      _most_specific(argv[1], argv[2], default))
  /\ argv' = <<>>
  /\ UnchangedTypes /\ UnchangedStream /\ UnchangedDraw

Dispatch(name) ==
  /\ Loaded
  /\ last' = LastCall("_float_function", name, argv,
                      _float_function__call__(name, argv))
  /\ argv' = <<>>
  /\ UnchangedTypes /\ UnchangedStream /\ UnchangedDraw

\* an integer-kind storage value bound to the result register is given a
\* literal
SetIntLiteral(value) ==
  LET emitted == BitType__set_literal_value(gp_return, value)
  IN /\ Loaded
     /\ Len(code) + Len(emitted) <= MaxCode
     /\ code' = code \o emitted
     /\ last' = LiteralCall("BitType", value, Len(emitted), Return(None))
     /\ UNCHANGED <<storage, held>>
     /\ UnchangedTypes /\ UnchangedDraw /\ UnchangedCall

\* a float-kind storage value bound to the result register is given a
\* literal; fail names the collaborator call that raises, if any
SetFloatLiteral(type_cls, value, address, fail) ==
  LET entry == [typecode |-> FloatFormat[type_cls], value |-> value]
      free == Registers \ held
  IN /\ Loaded
     /\ Len(storage) < MaxStorage
     /\ Len(code) + 3 <= MaxCode
     /\ storage' = Append(storage, entry)
     /\ IF free = {}
          THEN /\ last' = LiteralCall(type_cls, value, 0,
                                      Raise("Exception", NoMsg))
               /\ UNCHANGED <<code, held>>
          ELSE \E r_storage \in free :
                 LET addr == BitType__set_literal_value(r_storage, address)
                     load == Instr(FloatLoad[type_cls], fp_return, r_storage, 0)
                 IN CASE fail = "addr" ->
                           /\ held' = held \cup {r_storage}
                           /\ UNCHANGED code
                           /\ last' = LiteralCall(type_cls, value, 0,
                                                  Raise("Exception", NoMsg))
                      [] fail = "load" ->
                           /\ held' = held \cup {r_storage}
                           /\ code' = code \o addr
                           /\ last' = LiteralCall(type_cls, value, Len(addr),
                                                  Raise("Exception", NoMsg))
                      [] OTHER ->
                           /\ held' = (held \cup {r_storage}) \ {r_storage}
                           /\ code' = Append(code \o addr, load)
                           /\ last' = LiteralCall(type_cls, value,
                                                  Len(addr) + 1, Return(None))
     /\ UnchangedTypes /\ UnchangedDraw /\ UnchangedCall

\* a client takes a register for a value of its own
AcquireRegister ==
  /\ Loaded
  /\ \E r \in Registers \ held : held' = held \cup {r}
  /\ last' = LastCall("acquire_register", "", <<>>, Return(None))
  /\ UNCHANGED <<code, storage>>
  /\ UnchangedTypes /\ UnchangedDraw /\ UnchangedCall

\* code.reset(): the stream is as just constructed
Reset ==
  /\ Loaded
  /\ code' = <<>>
  /\ storage' = <<>>
  /\ held' = {}
  /\ last' = LastCall("reset", "", <<>>, Return(None))
  /\ UnchangedTypes /\ UnchangedDraw /\ UnchangedCall

(***************************************************************************)
(* Framebuffer demo                                                        *)
(***************************************************************************)
NoStream == "None"
SpuStreams == {"code0", "code1"}
FrameBuffers == {1, 2}
Strides == {1, 2}

set_buffers(fb0, fb1) ==
  /\ buffers' = <<fb0, fb1>>
  /\ last' = LastCall("set_buffers", "", <<>>, Return(None))
  /\ UNCHANGED <<active_code, stride, spu_code>>
  /\ UnchangedTypes /\ UnchangedStream /\ UnchangedCall

set_stride(s) ==
  /\ stride' = <<s * 4>>
  /\ last' = LastCall("set_stride", "", <<>>, Return(None))
  /\ UNCHANGED <<active_code, buffers, spu_code>>
  /\ UnchangedTypes /\ UnchangedStream /\ UnchangedCall

PleaseSet(what) == [op |-> "", types |-> <<>>, text |-> what]

synthesize(c) ==
  LET old_code == active_code["spu"]
  IN /\ IF buffers = <<>>
          THEN /\ active_code' = [active_code EXCEPT !["spu"] = c]
               /\ last' = LastCall("synthesize", c, <<>>,
                             Raise("Exception", PleaseSet("Please set buffers")))
               /\ UNCHANGED spu_code
          ELSE IF stride = <<>>
          THEN /\ active_code' = [active_code EXCEPT !["spu"] = c]
               /\ last' = LastCall("synthesize", c, <<>>,
                             Raise("Exception", PleaseSet("Please set stride")))
               /\ UNCHANGED spu_code
          ELSE /\ spu_code[c] < MaxSynth
               /\ spu_code' = [spu_code EXCEPT ![c] = @ + 1]
               /\ active_code' = [active_code EXCEPT !["spu"] = old_code]
               /\ last' = LastCall("synthesize", c, <<>>, Return(None))
     /\ UNCHANGED <<buffers, stride>>
     /\ UnchangedTypes /\ UnchangedStream /\ UnchangedCall

\* PPCType.active_code = c
_set_active_code(c) ==
  /\ active_code' = [active_code EXCEPT !["ppc"] = c]
  /\ last' = LastCall("_set_active_code", c, <<>>, Return(None))
  /\ UNCHANGED <<buffers, stride, spu_code>>
  /\ UnchangedTypes /\ UnchangedStream /\ UnchangedCall

(***************************************************************************)
(* Specifications                                                          *)
(***************************************************************************)
Init ==
  /\ classes = <<>>
  /\ attrs = [c \in TypeClasses |-> NoAttrs]
  /\ g = [name \in Names |-> 0]
  /\ t = 0
  /\ active_code = [arch \in {"ppc", "spu"} |-> NoStream]
  /\ code = <<>>
  /\ storage = <<>>
  /\ held = {}
  /\ buffers = <<>>
  /\ stride = <<>>
  /\ spu_code = [c \in SpuStreams |-> 0]
  /\ argv = <<>>
  /\ last = NoCall

NextTypes ==
  \/ Import
  \/ \E name \in Names, type_cls \in TypeClasses : MakeUserType(name, type_cls)

NextOps ==
  \/ Import
  \/ \E x \in Operands : Operand(x)
  \/ \E op \in BinaryOps : BinaryOperator(op)
  \/ \E op \in UnaryOps : UnaryOperator(op)
  \/ \E default \in UserClasses \cup {None} : Resolve(default)
  \/ \E name \in DOMAIN _float_functions : Dispatch(name)

NextLiteral ==
  \/ Import
  \/ \E value \in Literals : SetIntLiteral(value)
  \/ \E type_cls \in {"SingleFloatType", "DoubleFloatType"},
        value \in FloatLiterals, address \in Addresses,
        fail \in {"none", "addr", "load"} :
       SetFloatLiteral(type_cls, value, address, fail)
  \/ AcquireRegister
  \/ Reset

NextSynth ==
  \/ \E fb0 \in FrameBuffers, fb1 \in FrameBuffers : set_buffers(fb0, fb1)
  \/ \E s \in Strides : set_stride(s)
  \/ \E c \in SpuStreams : synthesize(c)
  \/ \E c \in {"code", NoStream} : _set_active_code(c)

Next == NextTypes \/ NextOps \/ NextLiteral \/ NextSynth

Spec == Init /\ [][Next]_vars
SpecTypes == Init /\ [][NextTypes]_vars
SpecOps == Init /\ [][NextOps]_vars
SpecLiteral == Init /\ [][NextLiteral]_vars
SpecSynth == Init /\ [][NextSynth]_vars

(***************************************************************************)
(* The operator table of the specification                                 *)
(***************************************************************************)
HostIntegerLiteral == {Host("int"), Host("long"), Host("Immediate")}
LiteralOrImmediate == {Host("int"), Host("Immediate")}

IsValueOf(x, kind) == HasTypeCls(x) /\ issubclass(KindOf(x), kind)

\* the result policy of the row for (left operand, operator, right operand),
\* or "unlisted"
RowPolicy(self, op, other) ==
  LET k == KindOf(self)
  IN CASE op \in {"__and__", "__or__", "__xor__"} /\ issubclass(k, "BitType")
            /\ IsValueOf(other, "BitType") -> "UPCAST"
       [] op \in {"__and__", "__or__", "__xor__"} /\ issubclass(k, "BitType")
            /\ other \in HostIntegerLiteral -> "SELF"
       [] op \in {"__lshift__", "__rshift__"} /\ issubclass(k, "BitType")
            /\ IsValueOf(other, "BitType") -> "SELF"
       [] op = "__add__" /\ k = "UnsignedWordType"
            /\ (IsValueOf(other, "UnsignedWordType")
                \/ other \in LiteralOrImmediate) -> "SELF"
       [] op = "__div__" /\ k = "UnsignedWordType"
            /\ IsValueOf(other, "SignedWordType") -> "SELF"
       [] op \in {"__add__", "__mul__"} /\ k = "SignedWordType"
            /\ (IsValueOf(other, "SignedWordType")
                \/ other \in LiteralOrImmediate) -> "SELF"
       [] op \in {"__div__", "__sub__"} /\ k = "SignedWordType"
            /\ IsValueOf(other, "SignedWordType") -> "SELF"
       [] op \in {"__add__", "__sub__", "__mul__", "__div__"}
            /\ k \in {"SingleFloatType", "DoubleFloatType"}
            /\ IsValueOf(other, k) -> "SELF"
       [] OTHER -> "unlisted"

UnaryRow(self, op) ==
  \/ op = "__neg__" /\ KindOf(self) = "SignedWordType"
  \/ op \in {"__neg__", "__abs__"}
       /\ KindOf(self) \in {"SingleFloatType", "DoubleFloatType"}

Related(ka, kb) == issubclass(ka, kb) \/ issubclass(kb, ka)
MoreSpecific(ka, kb) == IF issubclass(kb, ka) THEN kb ELSE ka

\* C1: every tabled operator application returns, and the kind of the
\* computed value follows the row's policy: SELF is the left operand's kind,
\* UPCAST the more specific of the two kinds, and in every case a defined
\* kind.
C1_OperatorTable ==
  /\ (last.call = "operator" /\ Len(last.args) = 2
        /\ RowPolicy(last.args[1], last.name, last.args[2]) # "unlisted")
     => /\ last.res.status = "return"
        /\ KindOf(last.res.value) # "None"
        /\ RowPolicy(last.args[1], last.name, last.args[2]) = "SELF"
             => KindOf(last.res.value) = KindOf(last.args[1])
        /\ (RowPolicy(last.args[1], last.name, last.args[2]) = "UPCAST"
              /\ Related(KindOf(last.args[1]), KindOf(last.args[2])))
             => KindOf(last.res.value) =
                  MoreSpecific(KindOf(last.args[1]), KindOf(last.args[2]))
  /\ (last.call = "operator" /\ Len(last.args) = 1
        /\ UnaryRow(last.args[1], last.name))
     => /\ last.res.status = "return"
        /\ KindOf(last.res.value) = KindOf(last.args[1])

\* C2: a binary operator applied to a right operand its row does not list
\* raises the unsupported-operation condition, which names the operator
\* invoked and the types of both operands.
C2_UnlistedRaises ==
  (last.call = "operator" /\ Len(last.args) = 2
     /\ RowPolicy(last.args[1], last.name, last.args[2]) = "unlisted")
  => /\ last.res.status = "raise"
     /\ last.res.exc = "Exception"
     /\ last.res.msg.text = "not implemented for"
     /\ last.res.msg.op = last.name
     /\ last.res.msg.types = last.args

\* C3: executing the instructions an integer literal's materialization
\* appended leaves the destination register equal to the literal.
C3_LiteralRoundTrip ==
  (last.call = "_set_literal_value" /\ last.name = "BitType")
  => Execute(SubSeq(code, Len(code) - last.n + 1, Len(code)), gp_return, 0)
       = last.lit

\* C4: a floating-point literal materialization, however it exits, leaves
\* the set of registers held from the allocator as it was.
C4_ScratchReleased ==
  [][(\E type_cls \in {"SingleFloatType", "DoubleFloatType"},
         value \in FloatLiterals, address \in Addresses,
         fail \in {"none", "addr", "load"} :
        SetFloatLiteral(type_cls, value, address, fail))
     => held' = held]_vars

TypedTuple(args) ==
  Len(args) > 0 /\ \A i \in 1..Len(args) : HasTypeCls(args[i])
Mismatched(args) ==
  {i \in 1..Len(args) : KindOf(args[i]) # KindOf(args[1])}

\* what the dispatcher does once the operands agree
ForwardsByPrecision ==
  LET k == KindOf(last.args[1])
  IN /\ k = "SingleFloatType"
          => /\ last.res.status = "return"
             /\ last.res.inst = _float_functions[last.name].single_func
             /\ last.res.operands = last.args
             /\ KindOf(last.res.value) = k
     /\ k = "DoubleFloatType"
          => /\ last.res.status = "return"
             /\ last.res.inst = _float_functions[last.name].double_func
             /\ last.res.operands = last.args
             /\ KindOf(last.res.value) = k
     /\ k \notin {"SingleFloatType", "DoubleFloatType"}
          => /\ last.res.status = "raise"
             /\ last.res.msg.text = "is not implemeneted for"
             /\ last.res.msg.op = last.name

C7_ResolveUnrelated ==
  (last.call = "_most_specific" /\ last.args[3] = None
     /\ ~(HasTypeCls(last.args[1]) /\ HasTypeCls(last.args[2])
          /\ Related(KindOf(last.args[1]), KindOf(last.args[2]))))
  => /\ last.res.status = "return"
     /\ last.res.value =
          (IF HasTypeCls(last.args[1]) THEN last.args[1]
           ELSE IF HasTypeCls(last.args[2]) THEN last.args[2]
           ELSE None)

\* C8: once the factory has run for the five kinds, each kind's storage
\* class and computed-value class refer back to that kind, and no class
\* serves two kinds.
C8_CrossReference ==
  Loaded =>
    /\ \A K \in TypeClasses :
         /\ LookupAttr(K, "var_cls") # 0
         /\ LookupAttr(K, "expr_cls") # 0
         /\ classes[LookupAttr(K, "var_cls")].type_cls = K
         /\ classes[LookupAttr(K, "expr_cls")].type_cls = K
         /\ LookupAttr(K, "var_cls") # LookupAttr(K, "expr_cls")
    /\ \A K1 \in TypeClasses, K2 \in TypeClasses :
         K1 # K2 =>
           {LookupAttr(K1, "var_cls"), LookupAttr(K1, "expr_cls")} \cap
           {LookupAttr(K2, "var_cls"), LookupAttr(K2, "expr_cls")} = {}

C8_Witness ==
  /\ Loaded
  /\ Len(classes) = 2 * Len(_user_types)
  /\ last.call = "make_user_type"
  /\ last.name = "DoubleFloat"

\* C9: a factory call for a kind that is already registered is an error and
\* leaves the kind's storage class and computed-value class in place.
C9_RegisteredOnce ==
  [][\A name \in Names, type_cls \in TypeClasses :
       (MakeUserType(name, type_cls) /\ attrs[type_cls].var_cls # 0)
       => /\ attrs'[type_cls] = attrs[type_cls]
          /\ last'.res.status = "raise"]_vars

\* C10: the active-target slot holds the same stream after a call of
\* synthesize as before it, on every exit path.
C10_ActiveRestored ==
  [][(\E c \in SpuStreams : synthesize(c))
     => active_code'["spu"] = active_code["spu"]]_vars

EmittingCalls ==
  {"operator", "_float_function", "_set_literal_value", "synthesize"}

====
